---- MODULE Spec2Model ----
(***************************************************************************)
(* net-stat: a terminal dashboard that polls the host's network interface  *)
(* counters.  The model follows src/src/main.rs (the binary) and the       *)
(* identical state updater of src/src/app.rs and src/src/networks.rs.      *)
(*                                                                         *)
(* The state is the App struct owned by run, the local `action` of the     *)
(* run loop, the position of the loop, and the terminal's queue of input   *)
(* events that crossterm's event::poll / event::read look at; then the     *)
(* position of main around run, the two terminal modes that startup and    *)
(* shutdown switch, and the row layout the last render computed.           *)
(***************************************************************************)
EXTENDS Integers, Sequences, FiniteSets, TLC

VARIABLES app, action, pc, events, main_pc, raw_mode, alt_screen, layout

vars == <<app, action, pc, events, main_pc, raw_mode, alt_screen, layout>>

\* What main and the terminal hold besides the run loop's state.
term == <<main_pc, raw_mode, alt_screen>>

(***************************************************************************)
(* Bounds of the model.                                                    *)
(***************************************************************************)
\* A Tick is resolved only while every history is shorter than this.
MaxHist == 2
\* The terminal holds at most this many unread input events.
MaxEvents == 2
\* The row height is computed for layouts of up to this many rows.
MaxRows == 101

(***************************************************************************)
(* The environment: the interfaces the OS may report, and their counters.  *)
(***************************************************************************)
Names == {"eth0", "lo"}

\* sysinfo's NetworkData of one interface, as read through NetworkExt.
NetData ==
    { [transmitted |-> 100, received |-> 10, total_transmitted |-> 1000,
       total_received |-> 500, mac_address |-> "02:00:00:00:00:01"],
      [transmitted |-> 150, received |-> 20, total_transmitted |-> 1150,
       total_received |-> 520, mac_address |-> "02:00:00:00:00:02"] }

\* What sys.networks() can hold after a refresh: a map name -> NetworkData.
Reports == UNION { [S -> NetData] : S \in SUBSET Names }

\* The orders in which a HashMap with key set S may be iterated.
Orders(S) ==
    { s \in [1..Cardinality(S) -> S] :
        \A i, j \in 1..Cardinality(S) : i # j => s[i] # s[j] }

\* The input events crossterm can deliver: a key with a code, or another event.
Events ==
    { [kind |-> "Key", code |-> "q"],
      [kind |-> "Key", code |-> "x"],
      [kind |-> "Resize", code |-> ""] }

Actions == {"Tick", "Quit", "None"}

(***************************************************************************)
(* Helpers over the state.                                                 *)
(***************************************************************************)
\* The names of a snapshot list, in a set.
NamesOf(interfaces) == { interfaces[i].name : i \in 1..Len(interfaces) }

\* The history of name n, the empty sequence when the map has no entry.
HistOf(graphs, n) == IF n \in DOMAIN graphs THEN graphs[n] ELSE <<>>

(***************************************************************************)
(* InterfaceData::from                                                     *)
(***************************************************************************)
InterfaceData_from(name, data) ==
    [ name       |-> name,
      sent_total |-> data.total_transmitted,
      rec_total  |-> data.total_received,
      sent       |-> data.transmitted,
      rec        |-> data.received,
      mac        |-> data.mac_address ]

\* update_net_data as if it merged: snapshots of the previous list whose
\* interface is no longer reported are kept after the fresh ones.
update_net_data_merge(a, order) ==
    [a EXCEPT !.interfaces =
        [i \in 1..Len(order) |-> InterfaceData_from(order[i], a.sys[order[i]])]
        \o SelectSeq(a.interfaces, LAMBDA s : s.name \notin DOMAIN a.sys)]

(***************************************************************************)
(* update_net_data: the snapshot list is rebuilt from sys.networks(),      *)
(* iterated in the order `order`.                                          *)
(***************************************************************************)
update_net_data(a, order) ==
    [a EXCEPT !.interfaces =
        [i \in 1..Len(order) |-> InterfaceData_from(order[i], a.sys[order[i]])]]

\* entry_push without the or_insert: an absent entry is not created.
entry_push_no_insert(graphs, name, sent) ==
    IF name \in DOMAIN graphs
    THEN [graphs EXCEPT ![name] = Append(@, sent)]
    ELSE graphs

\* entry_push with or_insert(Vec::new()): a created entry starts empty.
entry_push_insert_empty(graphs, name, sent) ==
    IF name \in DOMAIN graphs
    THEN [graphs EXCEPT ![name] = Append(@, sent)]
    ELSE [n \in DOMAIN graphs \cup {name} |->
            IF n = name THEN <<>> ELSE graphs[n]]

\* entry_push with insert(0, sent): the sample goes to the front.
entry_push_front(graphs, name, sent) ==
    IF name \in DOMAIN graphs
    THEN [graphs EXCEPT ![name] = <<sent>> \o @]
    ELSE [n \in DOMAIN graphs \cup {name} |->
            IF n = name THEN <<sent>> ELSE graphs[n]]

(***************************************************************************)
(* HashMap entry(name).and_modify(push sent).or_insert(vec![sent])         *)
(***************************************************************************)
entry_push(graphs, name, sent) ==
    IF name \in DOMAIN graphs
    THEN [graphs EXCEPT ![name] = Append(@, sent)]
    ELSE [n \in DOMAIN graphs \cup {name} |->
            IF n = name THEN <<sent>> ELSE graphs[n]]

(***************************************************************************)
(* update_graph_data: for each snapshot, in list order, push its sent      *)
(* value onto the history of its name.                                     *)
(***************************************************************************)
RECURSIVE for_each_push(_, _)
for_each_push(interfaces, graphs) ==
    IF interfaces = <<>>
    THEN graphs
    ELSE for_each_push(Tail(interfaces),
                       entry_push(graphs, Head(interfaces).name,
                                  Head(interfaces).sent))

\* update_graph_data as if it dropped the entries of absent interfaces.
update_graph_data_prune(a) ==
    [a EXCEPT !.interface_graphs =
        [n \in NamesOf(a.interfaces) |->
            for_each_push(a.interfaces, a.interface_graphs)[n]]]

update_graph_data(a) ==
    [a EXCEPT !.interface_graphs = for_each_push(a.interfaces, a.interface_graphs)]

(***************************************************************************)
(* sys.refresh_networks(): the handle now holds the report `refreshed`.    *)
(***************************************************************************)
refresh_networks(a, refreshed) == [a EXCEPT !.sys = refreshed]

\* update with the history append before the snapshot rebuild.
update_append_before_rebuild(a, act, refreshed, order) ==
    CASE act = "Quit" -> [a EXCEPT !.should_quit = TRUE]
      [] act = "Tick" ->
            update_net_data(
                update_graph_data(refresh_networks(a, refreshed)), order)
      [] OTHER -> a

\* update whose Quit arm falls through into the refresh of the Tick arm.
update_quit_refreshes(a, act, refreshed, order) ==
    CASE act = "Quit" ->
            update_graph_data(
                update_net_data(
                    refresh_networks([a EXCEPT !.should_quit = TRUE], refreshed),
                    order))
      [] act = "Tick" ->
            update_graph_data(
                update_net_data(refresh_networks(a, refreshed), order))
      [] OTHER -> a

\* update whose catch-all arm refreshes like a Tick.
update_none_refreshes(a, act, refreshed, order) ==
    CASE act = "Quit" -> [a EXCEPT !.should_quit = TRUE]
      [] OTHER ->
            update_graph_data(
                update_net_data(refresh_networks(a, refreshed), order))

\* update whose Quit arm flips the flag.
update_quit_toggles(a, act, refreshed, order) ==
    CASE act = "Quit" -> [a EXCEPT !.should_quit = ~a.should_quit]
      [] act = "Tick" ->
            update_graph_data(
                update_net_data(refresh_networks(a, refreshed), order))
      [] OTHER -> a

(***************************************************************************)
(* update(app, action)                                                     *)
(***************************************************************************)
update(a, act, refreshed, order) ==
    CASE act = "Quit" -> [a EXCEPT !.should_quit = TRUE]
      [] act = "Tick" ->
            update_graph_data(
                update_net_data(refresh_networks(a, refreshed), order))
      [] OTHER -> a

\* get_action that takes every key for the quit key.
get_action_any_key_quits(polled, ev) ==
    IF polled
    THEN IF ev.kind = "Key" THEN "Quit" ELSE "None"
    ELSE "Tick"

(***************************************************************************)
(* get_action: the action for the outcome of event::poll (polled) and,     *)
(* when an event is there, of event::read (ev).                            *)
(***************************************************************************)
get_action(polled, ev) ==
    IF polled
    THEN IF ev.kind = "Key"
         THEN IF ev.code = "q" THEN "Quit" ELSE "None"
         ELSE "None"
    ELSE "Tick"

(***************************************************************************)
(* The row height of a layout of `len` rows:                               *)
(*   let percentage: u16 = (100 / widgets.len()).try_into().unwrap();      *)
(* The division panics for len = 0, the unwrap when the quotient does not  *)
(* fit 16 bits.                                                            *)
(***************************************************************************)
U16_MAX == 65535

\* usize -> u16 by TryInto: Err when out of range.
try_into_u16(x) ==
    IF x >= 0 /\ x <= U16_MAX
    THEN [ok |-> TRUE, value |-> x]
    ELSE [ok |-> FALSE, value |-> 0]

\* The row height as if an empty layout were guarded: 0 rows give height 0.
row_percentage_guarded(len) ==
    IF len = 0
    THEN [panic |-> FALSE, value |-> 0]
    ELSE LET conv == try_into_u16(100 \div len)
         IN [panic |-> ~conv.ok, value |-> conv.value]

\* The row height as if the quotient were rounded up.
row_percentage_ceil(len) ==
    IF len = 0
    THEN [panic |-> TRUE, value |-> 0]
    ELSE LET conv == try_into_u16((100 + len - 1) \div len)
         IN [panic |-> ~conv.ok, value |-> conv.value]

row_percentage(len) ==
    IF len = 0
    THEN [panic |-> TRUE, value |-> 0]
    ELSE LET conv == try_into_u16(100 \div len)
         IN [panic |-> ~conv.ok, value |-> conv.value]

\* No render has computed a layout yet.
no_layout == [len |-> 0, percentage |-> 0]

\* calc_network_graphs as if it drew the current interfaces only.
calc_network_graphs_current_only(a, order) ==
    LET present == SelectSeq(order, LAMBDA k : k \in NamesOf(a.interfaces))
        widgets ==
            [i \in 1..Len(present) |->
                [title |-> present[i], data |-> a.interface_graphs[present[i]]]]
        row == row_percentage(Len(order))
    IN [panic |-> row.panic, widgets |-> widgets, percentage |-> row.value]

(***************************************************************************)
(* calc_network_graphs (main.rs): one titled sparkline per entry of the    *)
(* history map, in the map's iteration order, over the entry's samples;    *)
(* then the row height for that many rows.                                 *)
(***************************************************************************)
calc_network_graphs(a, order) ==
    LET widgets ==
            [i \in 1..Len(order) |->
                [title |-> order[i], data |-> a.interface_graphs[order[i]]]]
        row == row_percentage(Len(widgets))
    IN [panic |-> row.panic, widgets |-> widgets, percentage |-> row.value]

\* ui (main.rs): calc_network_graphs only; the text blocks are commented out.
ui(a, order) == calc_network_graphs(a, order)

(***************************************************************************)
(* The render of src/src/app.rs and src/src/networks.rs.                   *)
(***************************************************************************)
\* create_interface_paragraph: the four lines of format! text, each the
\* literal pieces and the values put between them.
create_interface_paragraph(interface) ==
    << <<"Interface: ", interface.name>>,
       <<"Sent/Recieved: ", interface.sent, " / ", interface.rec>>,
       <<"Total Send/Recieved ", interface.sent_total, " / ", interface.rec_total>>,
       <<"Mac Address ", interface.mac>> >>

\* create_interface_graph: a sparkline titled with the name over the samples.
create_interface_graph(name, val) == [title |-> name, data |-> val]

\* to_network_stat_widgets as if the sparkline of row i were the i-th entry of
\* the history map in the map's own order.
to_network_stat_widgets_by_position(a) ==
    LET order == CHOOSE o \in Orders(DOMAIN a.interface_graphs) : TRUE
        n == IF Len(a.interfaces) <= Len(order)
             THEN Len(a.interfaces) ELSE Len(order)
    IN [ panic        |-> FALSE,
         network_data |-> [i \in 1..Len(a.interfaces) |->
                              create_interface_paragraph(a.interfaces[i])],
         network_spark |-> [i \in 1..n |->
                              create_interface_graph(order[i],
                                  a.interface_graphs[order[i]])] ]

\* to_network_stat_widgets: per snapshot, in list order, its paragraph and the
\* sparkline of the history entry found under its name; get(..).unwrap()
\* panics when there is no such entry.
to_network_stat_widgets(a) ==
    IF \E i \in 1..Len(a.interfaces) :
          a.interfaces[i].name \notin DOMAIN a.interface_graphs
    THEN [panic |-> TRUE, network_data |-> <<>>, network_spark |-> <<>>]
    ELSE [ panic        |-> FALSE,
           network_data |-> [i \in 1..Len(a.interfaces) |->
                                create_interface_paragraph(a.interfaces[i])],
           network_spark |-> [i \in 1..Len(a.interfaces) |->
                                create_interface_graph(a.interfaces[i].name,
                                    a.interface_graphs[a.interfaces[i].name])] ]

\* calc_network_status: the row height from the number of paragraphs, then
\* the paragraphs and sparklines zipped into rows.
calc_network_status(a) ==
    LET w == to_network_stat_widgets(a)
        row == row_percentage(Len(w.network_data))
        n == IF Len(w.network_data) <= Len(w.network_spark)
             THEN Len(w.network_data) ELSE Len(w.network_spark)
    IN IF w.panic \/ row.panic
       THEN [panic |-> TRUE, rows |-> <<>>, percentage |-> 0]
       ELSE [ panic      |-> FALSE,
              rows       |-> [i \in 1..n |->
                                 [data  |-> w.network_data[i],
                                  spark |-> w.network_spark[i]]],
              percentage |-> row.value ]

\* run as if it seeded no history entry.
seed_graphs_none(interfaces) == [n \in {} |-> <<>>]

(***************************************************************************)
(* run, up to the loop: the state after construction.                      *)
(***************************************************************************)
seed_graphs(interfaces) == [n \in NamesOf(interfaces) |-> <<>>]

run_init(report, order) ==
    LET interfaces ==
            [i \in 1..Len(order) |-> InterfaceData_from(order[i], report[order[i]])]
    IN [ should_quit      |-> FALSE,
         sys              |-> report,
         interfaces       |-> interfaces,
         interface_graphs |-> seed_graphs(interfaces) ]

Init ==
    /\ \E report \in Reports : \E order \in Orders(DOMAIN report) :
          app = run_init(report, order)
    /\ action = "None"
    /\ pc = "get_action"
    /\ events = <<>>
    /\ main_pc = "run"
    /\ raw_mode = TRUE
    /\ alt_screen = TRUE
    /\ layout = no_layout

(***************************************************************************)
(* The user or the terminal produces an input event.  The event waits in   *)
(* the terminal's queue until event::poll looks at it, so an event that    *)
(* comes while the loop updates or draws is entered when the loop polls.   *)
(***************************************************************************)
Input ==
    /\ main_pc = "run"
    /\ pc = "get_action"
    /\ Len(events) < MaxEvents
    /\ \E e \in Events : events' = Append(events, e)
    /\ UNCHANGED <<app, action, pc, term, layout>>

(***************************************************************************)
(* Loop step 1: let action = get_action(&mut app)                          *)
(***************************************************************************)
\* event::poll found an event within the interval and event::read took it.
GetActionEvent ==
    /\ main_pc = "run"
    /\ pc = "get_action"
    /\ events # <<>>
    /\ action' = get_action(TRUE, Head(events))
    /\ events' = Tail(events)
    /\ pc' = "update"
    /\ UNCHANGED <<app, term, layout>>

\* event::poll timed out: nothing to read.
GetActionTimeout ==
    /\ main_pc = "run"
    /\ pc = "get_action"
    /\ events = <<>>
    /\ \A n \in DOMAIN app.interface_graphs :
          Len(app.interface_graphs[n]) < MaxHist
    /\ action' = get_action(FALSE, [kind |-> "Resize", code |-> ""])
    /\ pc' = "update"
    /\ UNCHANGED <<app, events, term, layout>>

\* event::poll or event::read returned Err: unwrap panics.
GetActionPanic ==
    /\ main_pc = "run"
    /\ pc = "get_action"
    /\ pc' = "panicked"
    /\ UNCHANGED <<app, action, events, term, layout>>

(***************************************************************************)
(* Loop step 2: update(&mut app, action)                                   *)
(***************************************************************************)
Update ==
    /\ pc = "update"
    /\ \E refreshed \in Reports : \E order \in Orders(DOMAIN refreshed) :
          app' = update(app, action, refreshed, order)
    /\ pc' = "draw"
    /\ UNCHANGED <<action, events, term, layout>>

(***************************************************************************)
(* Loop step 3: t.draw(|f| ui(f, &app))?                                   *)
(* ui is calc_network_graphs: one sparkline per history entry, and         *)
(* 100 / widgets.len() panics when there is none.                          *)
(***************************************************************************)
ui_panics(a) ==
    \E order \in Orders(DOMAIN a.interface_graphs) : ui(a, order).panic

\* A render that takes the snapshots out of the state it draws.
DrawOk_drains_snapshots ==
    /\ pc = "draw"
    /\ ~ui_panics(app)
    /\ \E order \in Orders(DOMAIN app.interface_graphs) :
          layout' = [ len        |-> Len(ui(app, order).widgets),
                      percentage |-> ui(app, order).percentage ]
    /\ app' = [app EXCEPT !.interfaces = <<>>]
    /\ pc' = "check_quit"
    /\ UNCHANGED <<action, events, term>>

DrawOk ==
    /\ pc = "draw"
    /\ ~ui_panics(app)
    /\ \E order \in Orders(DOMAIN app.interface_graphs) :
          layout' = [ len        |-> Len(ui(app, order).widgets),
                      percentage |-> ui(app, order).percentage ]
    /\ pc' = "check_quit"
    /\ UNCHANGED <<app, action, events, term>>

DrawPanic ==
    /\ pc = "draw"
    /\ ui_panics(app)
    /\ pc' = "panicked"
    /\ UNCHANGED <<app, action, events, term, layout>>

\* The terminal backend failed: draw returns Err and `?` returns it from run.
DrawErr ==
    /\ pc = "draw"
    /\ ~ui_panics(app)
    /\ pc' = "returned_err"
    /\ UNCHANGED <<app, action, events, term, layout>>

\* The loop without its exit: the flag is never looked at.
CheckQuit_no_break ==
    /\ pc = "check_quit"
    /\ pc' = "get_action"
    /\ UNCHANGED <<app, action, events, term, layout>>

(***************************************************************************)
(* Loop step 4: if app.should_quit { break }, then Ok(())                  *)
(***************************************************************************)
CheckQuit ==
    /\ pc = "check_quit"
    /\ pc' = IF app.should_quit THEN "returned_ok" ELSE "get_action"
    /\ UNCHANGED <<app, action, events, term, layout>>

Next ==
    \/ Input
    \/ GetActionEvent
    \/ GetActionTimeout
    \/ GetActionPanic
    \/ Update
    \/ DrawOk
    \/ DrawPanic
    \/ DrawErr
    \/ CheckQuit

Spec == Init /\ [][Next]_vars

\* The steps of run itself.  The loop is sequential code: where it stands, it
\* takes one of its steps; the arrival of input is not forced.
LoopStep ==
    \/ GetActionEvent
    \/ GetActionTimeout
    \/ GetActionPanic
    \/ Update
    \/ DrawOk
    \/ DrawPanic
    \/ DrawErr
    \/ CheckQuit

FairSpec == Spec /\ WF_vars(LoopStep)

(***************************************************************************)
(* update as a public function (src/src/app.rs): a caller may pass any     *)
(* action in any state, also after the termination flag is set.            *)
(***************************************************************************)
Caller ==
    /\ pc \in {"get_action", "draw"}
    /\ \E act \in Actions :
          /\ act = "Tick" =>
                \A n \in DOMAIN app.interface_graphs :
                    Len(app.interface_graphs[n]) < MaxHist
          /\ action' = act
    /\ pc' = "update"
    /\ UNCHANGED <<app, events, term, layout>>

NextU ==
    \/ Caller
    \/ Update

SpecU == Init /\ [][NextU]_vars

(***************************************************************************)
(* Steps and states the properties speak about.                            *)
(***************************************************************************)
\* A step that is update(app, act).
UpdateStep(act) == pc = "update" /\ action = act /\ pc' = "draw"

\* The last update applied was a Tick and the state is the one it left.
AfterTick == action = "Tick" /\ pc # "update"

(***************************************************************************)
(* C1. After any sequence of update calls (Tick, Quit, NoOp) from the      *)
(* state run builds, every name of the current snapshot list is a key of   *)
(* the history map.                                                        *)
(***************************************************************************)
C1_SnapshotNamesHaveHistory ==
    NamesOf(app.interfaces) \subseteq DOMAIN app.interface_graphs

\* A Tick created an entry for an interface run had not seen, while a stale
\* entry of an interface no longer reported is kept (no reverse inclusion).
C1_Witness ==
    /\ AfterTick
    /\ NamesOf(app.interfaces) = {"lo"}
    /\ DOMAIN app.interface_graphs = {"eth0", "lo"}
    /\ app.interface_graphs["eth0"] = <<>>
    /\ Len(app.interface_graphs["lo"]) = 1

(***************************************************************************)
(* C2. A Tick whose refreshed snapshot contains n makes n's history        *)
(* exactly one sample longer, whether the entry existed or is created.     *)
(***************************************************************************)
C2_TickGrowsByOne ==
    [][UpdateStep("Tick") =>
        \A n \in NamesOf(app'.interfaces) :
            /\ n \in DOMAIN app'.interface_graphs
            /\ Len(app'.interface_graphs[n])
                 = Len(HistOf(app.interface_graphs, n)) + 1]_vars

\* After a Tick: one present interface has its second sample, the other one
\* its first.
C2_Witness ==
    /\ AfterTick
    /\ NamesOf(app.interfaces) = {"eth0", "lo"}
    /\ Len(app.interface_graphs["eth0"]) = 2
    /\ Len(app.interface_graphs["lo"]) = 1

(***************************************************************************)
(* C3. The key set of the history map never shrinks; a Tick whose          *)
(* refreshed snapshot lacks n leaves n's history as it was, and the update *)
(* completes (the loop goes on to draw).                                   *)
(***************************************************************************)
C3_HistoryNeverRemoved ==
    [][/\ \A n \in DOMAIN app.interface_graphs :
            n \in DOMAIN app'.interface_graphs
       /\ UpdateStep("Tick") =>
            \A n \in DOMAIN app.interface_graphs \ NamesOf(app'.interfaces) :
                app'.interface_graphs[n] = app.interface_graphs[n]
       /\ (pc = "update" /\ pc' # pc) => pc' = "draw"]_vars

\* eth0 has samples, is absent from the snapshot a Tick left, and lo went on.
C3_Witness ==
    /\ AfterTick
    /\ NamesOf(app.interfaces) = {"lo"}
    /\ "eth0" \in DOMAIN app.interface_graphs
    /\ Len(app.interface_graphs["eth0"]) = 1
    /\ Len(app.interface_graphs["lo"]) = 2

(***************************************************************************)
(* C4. A Tick appends, at the end of the history of each present           *)
(* interface, the sent value the OS reported at that Tick, and leaves the  *)
(* earlier samples as they were; an absent entry counts as empty.          *)
(***************************************************************************)
C4_TickAppendsReportedSent ==
    [][UpdateStep("Tick") =>
        \A n \in DOMAIN app'.sys :
            /\ n \in DOMAIN app'.interface_graphs
            /\ app'.interface_graphs[n]
                 = HistOf(app.interface_graphs, n) \o <<app'.sys[n].transmitted>>]_vars

\* Tick with sent = 100, then Tick with sent = 150.
C4_Witness ==
    /\ AfterTick
    /\ "eth0" \in DOMAIN app.interface_graphs
    /\ app.interface_graphs["eth0"] = <<100, 150>>

(***************************************************************************)
(* C5. After a Tick, the last sample of each present interface is the sent *)
(* value of its snapshot, which is the value the handle holds from this    *)
(* Tick's refresh.                                                         *)
(***************************************************************************)
C5_LastSampleIsRefreshedSent ==
    AfterTick =>
        \A i \in 1..Len(app.interfaces) :
            LET n == app.interfaces[i].name
            IN /\ n \in DOMAIN app.interface_graphs
               /\ n \in DOMAIN app.sys
               /\ app.interface_graphs[n] # <<>>
               /\ app.interface_graphs[n][Len(app.interface_graphs[n])]
                    = app.interfaces[i].sent
               /\ app.interfaces[i].sent = app.sys[n].transmitted

\* The second Tick reported another value than the first one.
C5_Witness ==
    /\ AfterTick
    /\ "lo" \in NamesOf(app.interfaces)
    /\ app.interface_graphs["lo"] = <<150, 100>>
    /\ app.sys["lo"].transmitted = 100

(***************************************************************************)
(* C6. After a Tick the snapshot list holds exactly the interfaces of the  *)
(* refreshed report, once each, with the fields of that report.            *)
(***************************************************************************)
C6_SnapshotIsCurrentReport ==
    AfterTick =>
        /\ NamesOf(app.interfaces) = DOMAIN app.sys
        /\ Len(app.interfaces) = Cardinality(DOMAIN app.sys)
        /\ \A i \in 1..Len(app.interfaces) :
              LET s == app.interfaces[i]
              IN s.name \in DOMAIN app.sys =>
                    /\ s.sent = app.sys[s.name].transmitted
                    /\ s.rec = app.sys[s.name].received
                    /\ s.sent_total = app.sys[s.name].total_transmitted
                    /\ s.rec_total = app.sys[s.name].total_received
                    /\ s.mac = app.sys[s.name].mac_address

\* eth0 was in an earlier snapshot (it has a sample) and is not reported now.
C6_Witness ==
    /\ AfterTick
    /\ DOMAIN app.sys = {"lo"}
    /\ "eth0" \in DOMAIN app.interface_graphs
    /\ app.interface_graphs["eth0"] # <<>>
    /\ Len(app.interfaces) = 1

(***************************************************************************)
(* C7. update with Quit sets the termination flag and changes nothing      *)
(* else; applied to a state whose flag is already set it gives back the    *)
(* same state.                                                             *)
(***************************************************************************)
C7_QuitSetsFlagOnly ==
    [][UpdateStep("Quit") =>
        /\ app'.should_quit = TRUE
        /\ app'.sys = app.sys
        /\ app'.interfaces = app.interfaces
        /\ app'.interface_graphs = app.interface_graphs
        /\ app.should_quit => app' = app]_vars

\* Quit is applied once more to a terminated state that holds samples.
C7_Witness ==
    /\ pc = "update"
    /\ action = "Quit"
    /\ app.should_quit
    /\ \E n \in DOMAIN app.interface_graphs : app.interface_graphs[n] # <<>>

(***************************************************************************)
(* C8. update with the NoOp action (Action::None) leaves the whole         *)
(* application state unchanged: flag, handle, snapshot list, history map.  *)
(***************************************************************************)
C8_NoOpChangesNothing ==
    [][UpdateStep("None") =>
        /\ app'.should_quit = app.should_quit
        /\ app'.sys = app.sys
        /\ app'.interfaces = app.interfaces
        /\ app'.interface_graphs = app.interface_graphs]_vars

\* A NoOp from a key other than q was applied to a state that holds samples.
C8_Witness ==
    /\ pc = "draw"
    /\ action = "None"
    /\ app.interfaces # <<>>
    /\ \E n \in DOMAIN app.interface_graphs : Len(app.interface_graphs[n]) = 2

(***************************************************************************)
(* C9. get_action returns Quit exactly when an event was there and is a    *)
(* key with code q, Tick exactly when the poll timed out, NoOp otherwise;  *)
(* it takes at most one event from the input, none when it returns Tick.   *)
(***************************************************************************)
C9_ActionResolver ==
    [][(pc = "get_action" /\ pc' = "update") =>
        /\ action' \in Actions
        /\ action' = "Quit" <=>
              /\ events # <<>>
              /\ Head(events).kind = "Key"
              /\ Head(events).code = "q"
        /\ action' = "Tick" <=> events = <<>>
        /\ action' = "None" <=>
              /\ events # <<>>
              /\ ~(Head(events).kind = "Key" /\ Head(events).code = "q")
        /\ events # <<>> => events' = Tail(events)
        /\ action' = "Tick" => events' = events]_vars

\* One event was read and gave NoOp; the quit key behind it stays unread.
C9_Witness ==
    /\ pc = "update"
    /\ action = "None"
    /\ Len(events) = 1
    /\ events[1] = [kind |-> "Key", code |-> "q"]

(***************************************************************************)
(* C10. Each iteration of run is resolve action, update, render, check of  *)
(* the flag, in that order.  run returns normally only from the check,     *)
(* with the flag set by a Quit; once Quit is resolved the loop never       *)
(* resolves another action nor changes the state again, and leaves at the  *)
(* check of the same iteration; and once Quit is resolved the loop ends:   *)
(* it returns normally unless the final render fails.                      *)
(***************************************************************************)
Ended == pc \in {"returned_ok", "returned_err", "panicked"}

C10_RunLoop ==
    /\ [][/\ (pc = "get_action" /\ pc' # pc) => pc' \in {"update", "panicked"}
          /\ (pc = "update" /\ pc' # pc) => pc' = "draw"
          /\ (pc = "draw" /\ pc' # pc) =>
                pc' \in {"check_quit", "returned_err", "panicked"}
          /\ (pc = "check_quit" /\ pc' # pc) =>
                pc' = IF app.should_quit THEN "returned_ok" ELSE "get_action"
          /\ Ended => pc' = pc
          /\ (pc' = "returned_ok") => (app'.should_quit /\ action' = "Quit")
          /\ action = "Quit" => (action' = "Quit" /\ pc' # "get_action")
          /\ app.should_quit => app' = app]_vars
    /\ (action = "Quit") ~> Ended
    /\ (action = "Quit" /\ pc = "check_quit") ~> (pc = "returned_ok")

\* Ticks were applied, then the quit key was read, and run has returned Ok.
C10_Witness ==
    /\ pc = "returned_ok"
    /\ action = "Quit"
    /\ app.should_quit
    /\ \E n \in DOMAIN app.interface_graphs : Len(app.interface_graphs[n]) = 2

(***************************************************************************)
(* main: startup()?; let result = run(); shutdown()?; result?; Ok(())      *)
(***************************************************************************)
\* startup: enable_raw_mode()?; execute!(stderr, EnterAlternateScreen)?
\* ok_raw and ok_alt tell whether the two calls succeed.
startup(raw, alt, ok_raw, ok_alt) ==
    IF ~ok_raw THEN [raw_mode |-> raw, alt_screen |-> alt, ok |-> FALSE]
    ELSE IF ~ok_alt THEN [raw_mode |-> TRUE, alt_screen |-> alt, ok |-> FALSE]
    ELSE [raw_mode |-> TRUE, alt_screen |-> TRUE, ok |-> TRUE]

\* shutdown: execute!(stderr, LeaveAlternateScreen)?; disable_raw_mode()?
shutdown(raw, alt, ok_alt, ok_raw) ==
    IF ~ok_alt THEN [raw_mode |-> raw, alt_screen |-> alt, ok |-> FALSE]
    ELSE IF ~ok_raw THEN [raw_mode |-> raw, alt_screen |-> FALSE, ok |-> FALSE]
    ELSE [raw_mode |-> FALSE, alt_screen |-> FALSE, ok |-> TRUE]

\* The process starts: nothing is set up, the terminal is in its normal mode.
InitMain ==
    /\ \E report \in Reports : \E order \in Orders(DOMAIN report) :
          app = run_init(report, order)
    /\ action = "None"
    /\ pc = "get_action"
    /\ events = <<>>
    /\ main_pc = "startup"
    /\ raw_mode = FALSE
    /\ alt_screen = FALSE
    /\ layout = no_layout

\* startup()?  An Err leaves main at once.
Startup ==
    /\ main_pc = "startup"
    /\ \E ok_raw, ok_alt \in BOOLEAN :
          LET r == startup(raw_mode, alt_screen, ok_raw, ok_alt)
          IN /\ raw_mode' = r.raw_mode
             /\ alt_screen' = r.alt_screen
             /\ main_pc' = IF r.ok THEN "terminal_new" ELSE "exit_err"
    /\ UNCHANGED <<app, action, pc, events, layout>>

\* run begins: Terminal::new(..)?, then the state is built and the loop entered.
TerminalNew ==
    /\ main_pc = "terminal_new"
    /\ \E ok \in BOOLEAN : pc' = IF ok THEN pc ELSE "returned_err"
    /\ main_pc' = "run"
    /\ UNCHANGED <<app, action, events, raw_mode, alt_screen, layout>>

\* main as if it surfaced the error of run before the teardown.
RunReturns_result_first ==
    /\ main_pc = "run"
    /\ pc \in {"returned_ok", "returned_err"}
    /\ main_pc' = IF pc = "returned_err" THEN "exit_err" ELSE "shutdown"
    /\ UNCHANGED <<app, action, pc, events, raw_mode, alt_screen, layout>>

\* let result = run(): run has returned, Ok or Err, and main holds the result.
RunReturns ==
    /\ main_pc = "run"
    /\ pc \in {"returned_ok", "returned_err"}
    /\ main_pc' = "shutdown"
    /\ UNCHANGED <<app, action, pc, events, raw_mode, alt_screen, layout>>

\* A panic inside run unwinds through run and main: nothing catches it.
Unwind ==
    /\ main_pc = "run"
    /\ pc = "panicked"
    /\ main_pc' = "aborted"
    /\ UNCHANGED <<app, action, pc, events, raw_mode, alt_screen, layout>>

\* shutdown()?  An Err leaves main with that error.
Shutdown ==
    /\ main_pc = "shutdown"
    /\ \E ok_alt, ok_raw \in BOOLEAN :
          LET r == shutdown(raw_mode, alt_screen, ok_alt, ok_raw)
          IN /\ raw_mode' = r.raw_mode
             /\ alt_screen' = r.alt_screen
             /\ main_pc' = IF r.ok THEN "result" ELSE "exit_err"
    /\ UNCHANGED <<app, action, pc, events, layout>>

\* result?; Ok(())
Surface ==
    /\ main_pc = "result"
    /\ main_pc' = IF pc = "returned_ok" THEN "exit_ok" ELSE "exit_err"
    /\ UNCHANGED <<app, action, pc, events, raw_mode, alt_screen, layout>>

NextMain ==
    \/ Startup
    \/ TerminalNew
    \/ Next
    \/ RunReturns
    \/ Unwind
    \/ Shutdown
    \/ Surface

SpecMain == InitMain /\ [][NextMain]_vars

\* main has ended: exit status 0, exit with an error, or death by panic.
Exited == main_pc \in {"exit_ok", "exit_err"}
Terminated == main_pc \in {"exit_ok", "exit_err", "aborted"}

(***************************************************************************)
(* C11 (as claimed). Once run has returned, main calls shutdown before it  *)
(* leaves, on the error path and on the normal quit path alike, and after  *)
(* the normal quit path the exit status is 0.                              *)
(***************************************************************************)
C11_AsClaimed ==
    /\ (Exited /\ pc \in {"returned_ok", "returned_err"}) =>
          main_pc = IF pc = "returned_ok" THEN "exit_ok" ELSE "exit_err"
    /\ main_pc = "exit_ok" => (~raw_mode /\ ~alt_screen)

(***************************************************************************)
(* C11 (amended). Once run has returned, Ok or Err, main leaves only       *)
(* through a shutdown attempt; when shutdown succeeds the terminal is      *)
(* restored and the exit status is 0 after a normal quit and the error of  *)
(* run otherwise; when shutdown fails, its error is the one main returns,  *)
(* on either path.                                                         *)
(***************************************************************************)
C11_ShutdownBeforeResult ==
    [][/\ (main_pc = "run" /\ main_pc' # main_pc /\ pc # "panicked") =>
             (pc \in {"returned_ok", "returned_err"} /\ main_pc' = "shutdown")
       /\ (Exited' /\ ~Exited /\ pc \in {"returned_ok", "returned_err"}) =>
             main_pc \in {"shutdown", "result"}
       /\ (main_pc = "shutdown" /\ main_pc' # main_pc) =>
             \/ main_pc' = "result" /\ ~raw_mode' /\ ~alt_screen'
             \/ main_pc' = "exit_err" /\ raw_mode' = raw_mode
       /\ (main_pc = "result" /\ main_pc' # main_pc) =>
             /\ ~raw_mode /\ ~alt_screen
             /\ main_pc' = IF pc = "returned_ok" THEN "exit_ok" ELSE "exit_err"
       /\ main_pc' = "exit_ok" => pc' = "returned_ok"]_vars

\* A draw failed after a Tick, shutdown restored the terminal, and main has
\* returned the error of run.
C11_Witness ==
    /\ main_pc = "exit_err"
    /\ pc = "returned_err"
    /\ action = "Tick"
    /\ ~raw_mode
    /\ ~alt_screen

(***************************************************************************)
(* C12. Whenever the process has ended, by a returned error, by a panic or *)
(* normally, the terminal is restored: raw mode is off and the alternate   *)
(* screen is left.                                                         *)
(***************************************************************************)
C12_TerminalRestoredAtEnd ==
    Terminated => (~raw_mode /\ ~alt_screen)

(***************************************************************************)
(* C13 (as claimed). A render of a state with zero interfaces divides by   *)
(* zero and produces no frame; with at least one interface the row height  *)
(* is computed.                                                            *)
(***************************************************************************)
C13_AsClaimed ==
    [][(pc = "draw" /\ pc' # pc) =>
          /\ app.interfaces = <<>> => pc' # "check_quit"
          /\ app.interfaces # <<>> => ~ui_panics(app)]_vars

(***************************************************************************)
(* C13 (amended). The division by zero happens exactly when the render has *)
(* no widget to lay out: calc_network_graphs, which the binary calls,      *)
(* counts the entries of the history map, calc_network_status counts the   *)
(* current snapshots.  A render that divides by zero ends in a panic and   *)
(* computes no layout; with at least one interface neither render fails.   *)
(***************************************************************************)
C13_DivisionByZeroOnNoWidget ==
    /\ [](/\ ui_panics(app) <=> DOMAIN app.interface_graphs = {}
          /\ calc_network_status(app).panic <=> app.interfaces = <<>>
          /\ app.interfaces # <<>> =>
                (~ui_panics(app) /\ ~calc_network_status(app).panic))
    /\ [][(pc = "draw" /\ pc' # pc /\ ui_panics(app)) =>
             (pc' = "panicked" /\ layout' = layout)]_vars

\* A Tick found no interface, and the binary has drawn the one stale history
\* entry in a row of 100 percent.
C13_Witness ==
    /\ pc = "check_quit"
    /\ action = "Tick"
    /\ app.interfaces = <<>>
    /\ DOMAIN app.interface_graphs = {"eth0"}
    /\ layout = [len |-> 1, percentage |-> 100]

(***************************************************************************)
(* C14. In every render by to_network_stat_widgets / calc_network_status   *)
(* of a reachable state, row i holds the text block of the i-th snapshot   *)
(* and the sparkline titled with that snapshot's name over that name's     *)
(* history entry; there are as many sparklines as text blocks.             *)
(***************************************************************************)
\* The interface name a text block shows in its first line.
NameShown(paragraph) == paragraph[1][2]

C14_RowsPairSameInterface ==
    LET w == to_network_stat_widgets(app)
        r == calc_network_status(app)
    IN /\ ~w.panic =>
            /\ Len(w.network_data) = Len(w.network_spark)
            /\ Len(w.network_data) = Len(app.interfaces)
            /\ \A i \in 1..Len(w.network_data) :
                  /\ NameShown(w.network_data[i]) = app.interfaces[i].name
                  /\ w.network_spark[i].title = NameShown(w.network_data[i])
                  /\ w.network_spark[i].data
                       = app.interface_graphs[NameShown(w.network_data[i])]
       /\ ~r.panic =>
            /\ Len(r.rows) = Len(app.interfaces)
            /\ \A i \in 1..Len(r.rows) :
                  /\ r.rows[i].spark.title = NameShown(r.rows[i].data)
                  /\ r.rows[i].spark.data
                       = app.interface_graphs[NameShown(r.rows[i].data)]

\* Two interfaces with different histories are about to be drawn.
C14_Witness ==
    /\ pc = "draw"
    /\ action = "Tick"
    /\ Len(app.interfaces) = 2
    /\ app.interface_graphs["eth0"] = <<100>>
    /\ app.interface_graphs["lo"] = <<150, 150>>
    /\ ~calc_network_status(app).panic

(***************************************************************************)
(* C15 (as claimed). Every render produces one titled sparkline for each   *)
(* entry of the history map, stale ones included, over the entry's whole   *)
(* sample sequence: calc_network_graphs and to_network_stat_widgets alike. *)
(***************************************************************************)
\* The sparklines of sequence sparks are one per key of graphs, each over the
\* whole entry.
OnePerEntry(sparks, graphs) ==
    /\ Len(sparks) = Cardinality(DOMAIN graphs)
    /\ \A n \in DOMAIN graphs :
          \E i \in 1..Len(sparks) :
              /\ sparks[i].title = n
              /\ sparks[i].data = graphs[n]

C15_AsClaimed ==
    /\ \A order \in Orders(DOMAIN app.interface_graphs) :
          OnePerEntry(ui(app, order).widgets, app.interface_graphs)
    /\ ~to_network_stat_widgets(app).panic =>
          OnePerEntry(to_network_stat_widgets(app).network_spark,
                      app.interface_graphs)

(***************************************************************************)
(* C15 (amended). calc_network_graphs, the render of the binary, produces  *)
(* one titled sparkline for each entry of the history map, stale ones      *)
(* included; to_network_stat_widgets produces one for each current         *)
(* snapshot and none for a stale entry.  In both, a sparkline is over the  *)
(* whole sample sequence of its entry.                                     *)
(***************************************************************************)
C15_SparklinePerEntry ==
    /\ \A order \in Orders(DOMAIN app.interface_graphs) :
          OnePerEntry(ui(app, order).widgets, app.interface_graphs)
    /\ LET w == to_network_stat_widgets(app)
       IN ~w.panic =>
            /\ Len(w.network_spark) = Len(app.interfaces)
            /\ \A i \in 1..Len(w.network_spark) :
                  /\ w.network_spark[i].title = app.interfaces[i].name
                  /\ w.network_spark[i].data
                       = app.interface_graphs[app.interfaces[i].name]

\* eth0 is gone from the snapshot and its entry, with its sample, is stale.
C15_Witness ==
    /\ pc = "draw"
    /\ action = "Tick"
    /\ NamesOf(app.interfaces) = {"lo"}
    /\ DOMAIN app.interface_graphs = {"eth0", "lo"}
    /\ app.interface_graphs["eth0"] = <<100>>
    /\ app.interface_graphs["lo"] = <<150, 100>>

(***************************************************************************)
(* C16. For N >= 1 rows the row height is floor(100 / N) (33 for N = 3);   *)
(* N heights sum to at most 100, and to 100 exactly when N divides 100;    *)
(* for N > 100 the height is 0; the conversion to u16 never fails.         *)
(***************************************************************************)
\* The row height is computed for a layout of any number of rows.
LayoutRows ==
    /\ pc # "panicked"
    /\ \E len \in 0..MaxRows :
          /\ layout' = [len |-> len, percentage |-> row_percentage(len).value]
          /\ pc' = IF row_percentage(len).panic THEN "panicked" ELSE "check_quit"
    /\ UNCHANGED <<app, action, events, term>>

NextPct == LayoutRows

SpecPct == Init /\ [][NextPct]_vars

C16_RowPercentage ==
    layout.len >= 1 =>
        /\ pc # "panicked"
        /\ layout.percentage \in 0..U16_MAX
        /\ layout.percentage * layout.len <= 100
        /\ (layout.percentage + 1) * layout.len > 100
        /\ layout.len = 3 => layout.percentage = 33
        /\ layout.percentage * layout.len = 100 <=> 100 % layout.len = 0
        /\ layout.len > 100 => layout.percentage = 0

\* A layout of more rows than 100 has been computed.
C16_Witness ==
    /\ layout.len = 101
    /\ layout.percentage = 0
    /\ pc = "check_quit"

(***************************************************************************)
(* C17. The application state changes only inside update: resolving the    *)
(* action, rendering and checking the flag leave flag, handle, snapshot    *)
(* list and history map as they were, so the layout a render computed is   *)
(* the layout of the state the next update finds.                          *)
(***************************************************************************)
C17_StateChangesOnlyInUpdate ==
    /\ [][pc # "update" => app' = app]_vars
    /\ []((pc \in {"check_quit", "get_action", "update"} /\ layout # no_layout) =>
            layout.len = Cardinality(DOMAIN app.interface_graphs))

\* A frame of two rows was rendered after a Tick and the loop is back at the
\* next update with the state that Tick left.
C17_Witness ==
    /\ pc = "update"
    /\ action = "None"
    /\ layout = [len |-> 2, percentage |-> 50]
    /\ NamesOf(app.interfaces) = {"eth0", "lo"}
    /\ Len(app.interface_graphs["eth0"]) = 1

(***************************************************************************)
(* C18. In every reachable state, so in every render, each current         *)
(* snapshot has a history entry: the lookup by name in                     *)
(* to_network_stat_widgets finds it and its unwrap does not panic.         *)
(***************************************************************************)
C18_LookupNeverPanics ==
    ~to_network_stat_widgets(app).panic

\* A render follows a NoOp before any Tick: the entries are the seeded ones.
C18_Witness ==
    /\ pc = "draw"
    /\ action = "None"
    /\ NamesOf(app.interfaces) = {"eth0", "lo"}
    /\ \A n \in DOMAIN app.interface_graphs : app.interface_graphs[n] = <<>>

(***************************************************************************)
(* C19. The termination flag starts false; Tick and NoOp never change it;  *)
(* nothing resets it; it changes only by an update with Quit, which sets   *)
(* it: so it is true exactly when a Quit has been applied.                 *)
(***************************************************************************)
C19_FlagMonotonic ==
    /\ app.should_quit = FALSE
    /\ [][/\ app.should_quit => app'.should_quit
          /\ app'.should_quit # app.should_quit => UpdateStep("Quit")
          /\ UpdateStep("Quit") => app'.should_quit
          /\ (UpdateStep("Tick") \/ UpdateStep("None")) =>
                app'.should_quit = app.should_quit]_vars

\* A Tick was applied after a Quit, and the flag is still set.
C19_Witness ==
    /\ pc = "draw"
    /\ action = "Tick"
    /\ app.should_quit
    /\ \E n \in DOMAIN app.interface_graphs : app.interface_graphs[n] # <<>>

TypeOK ==
    /\ app.should_quit \in BOOLEAN
    /\ app.sys \in Reports
    /\ action \in Actions
    /\ pc \in {"get_action", "update", "draw", "check_quit",
               "returned_ok", "returned_err", "panicked"}
    /\ main_pc \in {"startup", "terminal_new", "run", "shutdown", "result",
                    "exit_ok", "exit_err", "aborted"}
    /\ raw_mode \in BOOLEAN
    /\ alt_screen \in BOOLEAN
    /\ layout.len \in Nat
    /\ Len(events) <= MaxEvents

====
